---- MODULE Spec2Model ----
(***************************************************************************)
(* PlainSpeak: live transcription, rolling transcript buffer and the       *)
(* transcription session, modelled from the TypeScript sources.            *)
(*                                                                         *)
(* The repository holds three implementations of the transcription hook:   *)
(*   "class"  useElevenLabsTranscription driving the imperative            *)
(*            WebSocketTranscription class,                                *)
(*   "hook"   useElevenLabsTranscription driving the                       *)
(*            useWebSocketTranscription hook,                              *)
(*   "speech" the legacy useSpeechRecognition hook (Web Speech API).       *)
(* The variable impl selects the implementation a behaviour runs.          *)
(*                                                                         *)
(* Text is a sequence of symbols: " " is the whitespace character, every   *)
(* other symbol stands for a run of non-whitespace characters.             *)
(***************************************************************************)
EXTENDS Integers, Sequences, FiniteSets, TLC

VARIABLES
    impl,                \* which implementation runs
    audioSource,         \* "microphone" | "computer" | "both"
    canUseSystemAudio,   \* supportsSystemAudio()
    now,                 \* Date.now(), in ms
    wsBuffer,            \* WebSocketTranscription.buffer / useWebSocketTranscription.transcriptBufferRef
    transcriptBuffer,    \* scribeBufferRef / transcriptBufferRef of the hook
    transcript,          \* scribeTranscript / transcript state of the hook
    interimTranscript,   \* scribeInterim / interimTranscript state of the hook
    wsTranscript,        \* useWebSocketTranscription.transcript
    wsInterimTranscript, \* useWebSocketTranscription.interimTranscript
    st,                  \* the transcription session, see InitSt
    wsTranscriptionRef,  \* "class": TRUE once the WebSocketTranscription instance exists
    appended,            \* history: the segments appended since the last clear, in order
    commits,             \* history: how many segments were ever appended
    lastQuery,           \* history: the getBufferedTranscript call, when it was the last operation
    lastOp,              \* history: the event, when the last operation was a committed transcript
    jargon,              \* the state of useJargonDetection, see InitJargon
    page,                \* the state of the Recording page, see InitPage
    speech               \* the recognition session of useSpeechRecognition, see InitSpeech

\* what the operations on the buffer leave alone
config == <<impl, audioSource, canUseSystemAudio, jargon, page, speech>>
sessionConfig == <<impl, audioSource, canUseSystemAudio, wsTranscriptionRef, st, jargon, page,
                   speech>>

\* ------------------------------------------------------------------------
\* Bounds of the model
\* ------------------------------------------------------------------------
MaxTicks == 7          \* the clock is advanced at most this many times
MaxCommits == 3        \* at most this many segments are appended
MaxLiveCommits == 1    \* committed events while the session is started and stopped
MaxStarts == 2         \* at most this many startListening calls
MaxDetectSteps == 2    \* the detection clock is advanced at most this many times
MaxDetections == 3     \* at most this many calls of the batch classifier
MaxExplains == 3       \* at most this many calls of explainWord
MaxCaptures == 2       \* at most this many captures are started
MaxCaptureTicks == 4
MaxRestarts == 2   \* the clock of the page is advanced at most this many times

\* ------------------------------------------------------------------------
\* Program constants
\* ------------------------------------------------------------------------
BUFFER_DURATION_MS == 60000
DefaultSeconds == 60
CaptureWindowSeconds == 75
detectionIntervalMs == 5000
CaptureDelayMs == 15000

\* granularity of the modelled clock: 10 s
TickMs == BUFFER_DURATION_MS \div 6

\* ------------------------------------------------------------------------
\* Strings
\* ------------------------------------------------------------------------
Empty == << >>
Space == <<" ">>

IsWhitespace(c) == c = " "

RECURSIVE trimStart(_)
trimStart(s) ==
    IF s = Empty THEN Empty
    ELSE IF IsWhitespace(Head(s)) THEN trimStart(Tail(s)) ELSE s

RECURSIVE trimEnd(_)
trimEnd(s) ==
    IF s = Empty THEN Empty
    ELSE IF IsWhitespace(s[Len(s)]) THEN trimEnd(SubSeq(s, 1, Len(s) - 1)) ELSE s

\* String.prototype.trim
trim(s) == trimEnd(trimStart(s))

\* Array.prototype.join
RECURSIVE join(_, _)
join(texts, sep) ==
    IF texts = << >> THEN Empty
    ELSE IF Len(texts) = 1 THEN texts[1]
    ELSE texts[1] \o sep \o join(Tail(texts), sep)

\* JavaScript truthiness of a string
Truthy(s) == s # Empty

\* texts the transcription service may deliver
RawTexts == { <<"hello">>, <<"world">>, <<" ", "foo", " ">>, <<" ", " ">>, << >> }

\* windows a caller asks for, in seconds
Windows == { DefaultSeconds, CaptureWindowSeconds }

\* ------------------------------------------------------------------------
\* Rolling buffer
\* ------------------------------------------------------------------------
Texts(buf) == [i \in 1..Len(buf) |-> buf[i].text]

KeepNewer(buf, cutoff) == SelectSeq(buf, LAMBDA e : e.timestamp > cutoff)

\* cleanBuffer with the eviction forgotten
cleanBuffer_keepAll(buf, t) == buf

cleanBuffer(buf, t) == KeepNewer(buf, t - BUFFER_DURATION_MS)

\* the query filter keeping the segment that is exactly `seconds` old
Returned_inclusive(buf, t, seconds) ==
    SelectSeq(buf, LAMBDA e : e.timestamp >= t - seconds * 1000)

Returned(buf, t, seconds) == KeepNewer(buf, t - seconds * 1000)

getBufferedTranscriptOf(buf, t, seconds) ==
    trim(join(Texts(Returned(buf, t, seconds)), Space))

needsSystemAudio == audioSource \in {"computer", "both"}
useWsMode == impl # "speech" /\ needsSystemAudio /\ canUseSystemAudio

\* the legacy hook also asks for entry.isFinal
SpeechReturned(buf, t, seconds) ==
    SelectSeq(buf, LAMBDA e : e.timestamp > t - seconds * 1000 /\ e.isFinal)

SpeechBufferedTranscriptOf(buf, t, seconds) ==
    trim(join(Texts(SpeechReturned(buf, t, seconds)), Space))

\* the buffer the hook's getBufferedTranscript reads
ActiveBuffer ==
    IF impl = "class" THEN (IF useWsMode /\ wsTranscriptionRef THEN wsBuffer ELSE transcriptBuffer)
    ELSE IF impl = "hook" THEN (IF useWsMode THEN wsBuffer ELSE transcriptBuffer)
    ELSE transcriptBuffer

\* the transcript and interim text the hook returns
Transcript == IF impl = "hook" /\ useWsMode THEN wsTranscript ELSE transcript
InterimTranscript == IF impl = "hook" /\ useWsMode THEN wsInterimTranscript ELSE interimTranscript

NoQuery == [valid |-> FALSE, seconds |-> 0, at |-> 0, held |-> << >>, result |-> Empty]
NoOp == [op |-> "other", text |-> Empty, pushed |-> 0]

\* ------------------------------------------------------------------------
\* Transcription session: state
\* ------------------------------------------------------------------------
\* Every startListening call has a number; the streams, the mixing context and
\* the socket it creates carry that number, and so does the capture graph
\* (AudioContext with its ScriptProcessorNode) that startAudioCapture builds
\* when session_started arrives on that socket.
Calls == 1..MaxStarts

InitSt ==
    [ nstarts |-> 0,                              \* startListening calls so far
      call |-> [k \in Calls |-> "new"],           \* where each call stands
      mic |-> [k \in Calls |-> "none"],           \* getUserMedia stream: none | live | stopped
      display |-> [k \in Calls |-> "none"],       \* getDisplayMedia stream: none | live | stopped (no live track)
      mix |-> [k \in Calls |-> "none"],           \* mixing AudioContext: none | live | closed
      sock |-> [k \in Calls |-> "none"],          \* WebSocket: none | connecting | open | closing | closed
      started |-> [k \in Calls |-> FALSE],        \* history: session_started was received on the socket
      graph |-> [k \in Calls |-> "none"],         \* capture graph: none | live | closed
      ws |-> 0,                                   \* this.ws / wsRef.current
      graphRef |-> 0,                             \* this.processor, this.audioContext / processorRef, audioContextRef
      displayStreamRef |-> 0,
      mixContextRef |-> 0,
      isConnected |-> FALSE,                      \* WebSocketTranscription.isConnected / isConnected state
      wsConnected |-> FALSE,                      \* "class": wsConnected state
      isConnecting |-> FALSE,                     \* "class": isConnecting state; "hook": ws.isConnecting
      scribeConnecting |-> FALSE,                 \* "hook": scribeConnecting state
      scribeConnected |-> FALSE,                  \* scribe.isConnected
      error |-> "none",                           \* error state of useElevenLabsTranscription
      wsError |-> "none",                         \* "hook": error state of useWebSocketTranscription
      tokenRequests |-> 0,                        \* history: calls of the token function
      cancelled |-> {},                           \* history: the unfinished starts that stopListening found with no socket yet
      frame |-> [to |-> 0, started |-> FALSE, dropped |-> FALSE] ]   \* history: when the last step was onaudioprocess, the socket the frame went to, or that it was dropped

\* what the hook returns
isListening(s) ==
    IF useWsMode THEN (IF impl = "class" THEN s.wsConnected ELSE s.isConnected)
    ELSE s.scribeConnected
isConnecting(s) ==
    IF impl = "class" THEN s.isConnecting
    ELSE (IF useWsMode THEN s.isConnecting ELSE s.scribeConnecting)
combinedError(s) ==
    IF impl = "class" THEN s.error
    ELSE IF s.error # "none" THEN s.error
    ELSE IF useWsMode THEN s.wsError ELSE "none"

\* ------------------------------------------------------------------------
\* Transcription session: the functions of the sources, as state transformers
\* ------------------------------------------------------------------------
\* WebSocket.close()
CloseSocket(state) == IF state \in {"connecting", "open"} THEN "closing" ELSE state

\* MediaStreamTrack.stop() on every track of a stream
StopTracks(state) == IF state = "live" THEN "stopped" ELSE state

\* WebSocketTranscription.disconnect / useWebSocketTranscription.cleanup
disconnect(s) ==
    [s EXCEPT !.graph = [g \in Calls |-> IF g = s.graphRef THEN "closed" ELSE s.graph[g]],
              !.graphRef = 0,
              !.sock = [k \in Calls |-> IF k = s.ws THEN CloseSocket(s.sock[k]) ELSE s.sock[k]],
              !.ws = 0,
              !.isConnected = FALSE]

cleanupStreams(s) ==
    [s EXCEPT !.display = [k \in Calls |-> IF k = s.displayStreamRef
                                           THEN StopTracks(s.display[k]) ELSE s.display[k]],
              !.displayStreamRef = 0,
              !.mix = [k \in Calls |-> IF k = s.mixContextRef /\ s.mix[k] = "live"
                                       THEN "closed" ELSE s.mix[k]],
              !.mixContextRef = 0]

\* startAudioCapture: a new AudioContext and ScriptProcessorNode replace the refs
startAudioCapture(s, k) ==
    [s EXCEPT !.graph[k] = "live", !.graphRef = k]

\* the callbacks useElevenLabsTranscription gives to WebSocketTranscription
onConnected(s) == [s EXCEPT !.wsConnected = TRUE, !.isConnecting = FALSE]
onDisconnected(s) == [s EXCEPT !.wsConnected = FALSE]
onError(s, err) == [s EXCEPT !.error = err, !.wsConnected = FALSE, !.isConnecting = FALSE]

\* ws.onmessage, message_type "session_started", received on socket k
onSessionStarted(s, k) ==
    IF impl = "class"
    THEN startAudioCapture(onConnected([s EXCEPT !.isConnected = TRUE, !.started[k] = TRUE]), k)
    ELSE startAudioCapture([s EXCEPT !.isConnected = TRUE, !.isConnecting = FALSE,
                                     !.started[k] = TRUE], k)

\* ws.onmessage, an error-typed message: the hook has no branch for it
onErrorMessage(s, k) ==
    IF impl = "class" THEN onError(s, "ServiceError") ELSE s

\* ws.onerror of socket k
onerror(s, k) ==
    IF impl = "class"
    THEN disconnect(onError(s, "TransportError"))
    ELSE disconnect([s EXCEPT !.wsError = "TransportError"])

\* ws.onclose that asks for a new token and opens a new connection
onclose_reconnect(s, k) ==
    [s EXCEPT !.sock[k] = "connecting", !.ws = k, !.isConnecting = TRUE,
              !.tokenRequests = s.tokenRequests + 1]

\* ws.onclose of socket k
onclose(s, k) ==
    IF impl = "class"
    THEN onDisconnected([s EXCEPT !.isConnected = FALSE])
    ELSE disconnect([s EXCEPT !.isConnected = FALSE, !.isConnecting = FALSE])

\* a track.onended that closes the connection and leaves the streams alone
onended_disconnectOnly(s) ==
    IF impl = "class"
    THEN [disconnect(s) EXCEPT !.wsConnected = FALSE]
    ELSE disconnect(s)

\* track.onended of the display stream
onended(s) ==
    IF impl = "class"
    THEN [cleanupStreams(disconnect(s)) EXCEPT !.wsConnected = FALSE]
    ELSE cleanupStreams(disconnect(s))

\* the starts that wait for a permission prompt or for a token: no socket yet
StartsInProgress(s) ==
    {k \in Calls : s.call[k] \in {"mic", "display", "token", "scribeToken"}}

\* stopListening of the hook
stopListeningOf(s) ==
    IF impl = "class"
    THEN cleanupStreams([(IF wsTranscriptionRef
                          THEN [disconnect(s) EXCEPT !.wsConnected = FALSE]
                          ELSE s) EXCEPT !.scribeConnected = FALSE])
    ELSE IF useWsMode
         THEN cleanupStreams(disconnect(s))
         ELSE [s EXCEPT !.scribeConnected = FALSE]

\* the catch block of startListening; setIsConnecting(false) is in the "class" copy
StartFailed(s, k, err) ==
    [s EXCEPT !.call[k] = "failed", !.error = err,
              !.isConnecting = IF impl = "class" THEN FALSE ELSE s.isConnecting]

\* the entry of connect: the "hook" copy sets its own flags, then both ask for a token
BeginConnect(s, k) ==
    [s EXCEPT !.call[k] = "token",
              !.tokenRequests = s.tokenRequests + 1,
              !.isConnecting = IF impl = "hook" THEN TRUE ELSE s.isConnecting,
              !.wsError = IF impl = "hook" THEN "none" ELSE s.wsError]

\* connect after the token arrived: new WebSocket, this.ws = ws
OpenSocket(s, k) ==
    [s EXCEPT !.call[k] = "done", !.sock[k] = "connecting", !.ws = k]

\* connect when the token function failed or returned no token
TokenFailed(s, k) ==
    IF impl = "class"
    THEN StartFailed(s, k, "TokenUnavailable")
    ELSE [s EXCEPT !.call[k] = "failed", !.wsError = "TokenUnavailable", !.isConnecting = FALSE]

\* a start that turns to the microphone when the share is refused
AfterDisplay_micFallback(s, k, outcome) ==
    IF outcome = "fail"
    THEN BeginConnect([s EXCEPT !.mic[k] = "live"], k)
    ELSE BeginConnect([s EXCEPT !.display[k] = "live", !.displayStreamRef = k], k)

\* startListening from the result of getDisplayMedia up to the token request
AfterDisplay(s, k, outcome) ==
    LET got == IF outcome = "fail" THEN s
               ELSE [s EXCEPT !.display[k] = IF outcome = "audio" THEN "live" ELSE "stopped",
                              !.displayStreamRef = k]
        hasMic == s.mic[k] = "live"
    IN  IF outcome = "fail" /\ audioSource = "computer"
        THEN StartFailed(s, k, "SystemAudioUnavailable")
        ELSE IF hasMic /\ outcome = "audio"
        THEN BeginConnect([got EXCEPT !.mix[k] = "live", !.mixContextRef = k], k)
        ELSE IF outcome = "audio" \/ hasMic
        THEN BeginConnect(got, k)
        ELSE StartFailed(got, k, "NoAudioSource")

\* ------------------------------------------------------------------------
\* Jargon detection: state of useJargonDetection
\* ------------------------------------------------------------------------
\* granularity of the detection clock: one interval
DetectStepMs == detectionIntervalMs

NoInterval == [armed |-> FALSE, text |-> Empty, due |-> 0, ticks |-> 0]

\* keys of the explanation cache; "null" stands for null / undefined
ExplainKeys == { "api", "roi" }
NoEntry == [explanation |-> "null", isJargon |-> FALSE]
NoReturn == [valid |-> FALSE, word |-> "null", isJargon |-> FALSE, explanation |-> "null",
             hit |-> FALSE]

\* calls: history of the invocations of detect-jargon-batch, with the text
\* sent, the time of the call and whether the answer is still outstanding
InitJargon ==
    [ transcript |-> Empty,             \* the transcript prop
      isListening |-> FALSE,            \* the isListening prop
      intervalRef |-> NoInterval,       \* the interval intervalRef.current points to, if any
      timers |-> {},                    \* the intervals that are set and not cleared,
                                        \* each with the transcript its callback closed over
      lastAnalyzedTranscript |-> Empty,
      detectedJargon |-> {},
      isDetecting |-> FALSE,
      clock |-> 0,
      calls |-> << >>,
      failed |-> FALSE,                 \* history: the last step was a call ending in an error or a rejection
      explanationCache |-> [k \in ExplainKeys |-> NoEntry],
                                        \* explanation per key; isJargon is history: what the
                                        \* response that wrote the entry said
      isExplaining |-> FALSE,
      requests |-> << >>,               \* the explainWord calls that reached explain-word: word, open
      returned |-> NoReturn,            \* history: what explainWord resolved to, when the last step resolved one
      answered |-> [k \in ExplainKeys |-> {}] ]
                                        \* history: the explanations explainWord has returned per key with isJargon true

\* a lower-casing that leaves the word as it is
toLowerCase_asIs(w) == w

toLowerCase(w) == CASE w = "API" -> "api" [] w = "Roi" -> "roi" [] OTHER -> w

\* detectJargon(text) up to its await
detectJargon(j, text) ==
    IF ~Truthy(trim(text)) \/ text = j.lastAnalyzedTranscript
    THEN j
    ELSE [j EXCEPT !.isDetecting = TRUE,
                   !.calls = Append(@, [text |-> text, at |-> j.clock, open |-> TRUE])]

\* a detection that forgets the words found so far when a call fails
detectJargonSettled_resetOnFailure(j, i, outcome) ==
    LET done == [j EXCEPT !.calls[i].open = FALSE, !.isDetecting = FALSE,
                          !.failed = outcome.kind \in {"error", "rejected"}]
    IN  IF outcome.kind = "words"
        THEN [done EXCEPT !.detectedJargon = @ \cup { toLowerCase(outcome.words[n]) :
                                                         n \in 1..Len(outcome.words) },
                          !.lastAnalyzedTranscript = j.calls[i].text]
        ELSE [done EXCEPT !.detectedJargon = {}]

\* detectJargon after its await, for call i: outcome is the answer of the function
detectJargonSettled(j, i, outcome) ==
    LET done == [j EXCEPT !.calls[i].open = FALSE, !.isDetecting = FALSE,
                          !.failed = outcome.kind \in {"error", "rejected"}]
    IN  IF outcome.kind = "words"
        THEN [done EXCEPT !.detectedJargon = @ \cup { toLowerCase(outcome.words[n]) :
                                                         n \in 1..Len(outcome.words) },
                          !.lastAnalyzedTranscript = j.calls[i].text]
        ELSE done

\* what explainWord resolves to
Resolve(j, word, isJargon, explanation, hit) ==
    [j EXCEPT !.returned = [valid |-> TRUE, word |-> word, isJargon |-> isJargon,
                            explanation |-> explanation, hit |-> hit],
              !.answered[toLowerCase(word)] =
                  IF isJargon /\ explanation # "null" THEN @ \cup {explanation} ELSE @]

\* explainWord(word, context) up to its await: the cache lookup, then the request
explainWordCalled(j, word) ==
    LET cacheKey == toLowerCase(word)
    IN  IF j.explanationCache[cacheKey].explanation # "null"
        THEN Resolve(j, word, TRUE, j.explanationCache[cacheKey].explanation, TRUE)
        ELSE [j EXCEPT !.isExplaining = TRUE,
                       !.requests = Append(@, [word |-> word, open |-> TRUE]),
                       !.returned = NoReturn]

\* an explainWord that caches what it gets on failure too
explainWordSettled_cachesFailure(j, i, outcome) ==
    LET cacheKey == toLowerCase(j.requests[i].word)
        done == [j EXCEPT !.requests[i].open = FALSE, !.isExplaining = FALSE,
                          !.failed = outcome.kind \in {"error", "rejected"}]
    IN  IF outcome.kind = "data"
        THEN Resolve([done EXCEPT !.explanationCache[cacheKey] =
                                     IF outcome.explanation # "null"
                                     THEN [explanation |-> outcome.explanation,
                                           isJargon |-> outcome.isJargon]
                                     ELSE @],
                     j.requests[i].word, outcome.isJargon, outcome.explanation, FALSE)
        ELSE Resolve([done EXCEPT !.explanationCache[cacheKey] =
                                     [explanation |-> "e1", isJargon |-> FALSE]],
                     j.requests[i].word, FALSE, "null", FALSE)

\* explainWord after its await, for request i: outcome is the answer of explain-word
explainWordSettled(j, i, outcome) ==
    LET cacheKey == toLowerCase(j.requests[i].word)
        done == [j EXCEPT !.requests[i].open = FALSE, !.isExplaining = FALSE,
                          !.failed = outcome.kind \in {"error", "rejected"}]
    IN  IF outcome.kind = "data"
        THEN Resolve([done EXCEPT !.explanationCache[cacheKey] =
                                     IF outcome.explanation # "null"
                                     THEN [explanation |-> outcome.explanation,
                                           isJargon |-> outcome.isJargon]
                                     ELSE @],
                     j.requests[i].word, outcome.isJargon, outcome.explanation, FALSE)
        ELSE Resolve(done, j.requests[i].word, FALSE, "null", FALSE)

\* if (intervalRef.current) clearInterval(intervalRef.current)
clearInterval(j) ==
    IF j.intervalRef.armed THEN [j EXCEPT !.timers = @ \ {j.intervalRef}] ELSE j

\* setInterval(callback, detectionIntervalMs), the callback closing over text
setInterval(j, text) ==
    LET tm == [armed |-> TRUE, text |-> text, due |-> j.clock + detectionIntervalMs, ticks |-> 0]
    IN  [j EXCEPT !.timers = @ \cup {tm}, !.intervalRef = tm]

\* an effect that sets its interval without clearing the one before
detectionEffect_noClear(j) ==
    IF j.isListening /\ Truthy(j.transcript)
    THEN setInterval(detectJargon(j, j.transcript), j.transcript)
    ELSE [j EXCEPT !.intervalRef = NoInterval]

\* the periodic-detection effect: the cleanup of the previous run, then the
\* body.  The cleanup exists whenever intervalRef.current is set, since the
\* body that sets it is the one that returns the cleanup.
detectionEffect(j) ==
    LET cleaned == [clearInterval(j) EXCEPT !.intervalRef = NoInterval]
    IN  IF cleaned.isListening /\ Truthy(cleaned.transcript)
        THEN setInterval(detectJargon(clearInterval(cleaned), cleaned.transcript),
                         cleaned.transcript)
        ELSE cleaned

\* the callback of the interval tm
intervalCallback(j, tm) ==
    LET again == [tm EXCEPT !.due = @ + detectionIntervalMs, !.ticks = @ + 1]
        next == [j EXCEPT !.timers = (@ \ {tm}) \cup {again},
                          !.intervalRef = IF @ = tm THEN again ELSE @]
    IN  IF tm.text # j.lastAnalyzedTranscript
        THEN detectJargon(next, tm.text)
        ELSE next

\* ------------------------------------------------------------------------
\* Recording page: state
\* ------------------------------------------------------------------------
\* Captures are numbered in the order of startCapture.  saves is the history
\* of the saveCapture runs: the capture, who ran it, the text it queried and
\* how far it got ("empty", "insert", "saved", "failed").
InitPage ==
    [ isCapturing |-> FALSE,
      captureTimeout |-> 0,             \* the capture whose timeout the state holds, or 0
      timeouts |-> {},                  \* the timeouts that are set, not cleared and not fired
      ncaptures |-> 0,
      saves |-> << >>,
      moments |-> << >>,                \* the transcripts of the rows of captured_moments
      fired |-> << >>,                  \* history: the captures whose timeout fired, in order
      cancelled |-> {},                 \* history: the captures ended by cancelCapture
      cleared |-> 0 ]                   \* history: how many times the page cleared the transcript

\* ------------------------------------------------------------------------
\* Continuous recognition (useSpeechRecognition): state and handlers
\* ------------------------------------------------------------------------
\* The SpeechRecognition object is idle, starting (start() was called and
\* onstart has not run), running, or ending (stop() was called or an error
\* was reported, and onend has not run).
InitSpeech ==
    [ isSupported |-> TRUE,
      recognitionRef |-> FALSE,         \* recognitionRef.current is set
      recognition |-> "idle",           \* idle | starting | running | ending
      shouldRestartRef |-> FALSE,
      isListening |-> FALSE,
      error |-> "none",
      requested |-> FALSE,              \* history: startListening was called, no stopListening and no "not-allowed" since
      restarts |-> 0 ]                  \* history: how many times onend started the recognition again

\* SpeechRecognition.start(): throws when the recognition is not idle, and
\* every caller catches that
start(state) == IF state = "idle" THEN "starting" ELSE state

\* SpeechRecognition.stop()
stop(state) == IF state \in {"starting", "running"} THEN "ending" ELSE state

\* startListening of useSpeechRecognition
speechStartListening(r) ==
    IF ~r.isSupported
    THEN [r EXCEPT !.error = "NotSupported", !.requested = TRUE]
    ELSE [r EXCEPT !.shouldRestartRef = TRUE,
                   !.recognitionRef = TRUE,
                   !.recognition = start(r.recognition),
                   !.requested = TRUE]

\* stopListening of useSpeechRecognition
speechStopListening(r) ==
    [r EXCEPT !.shouldRestartRef = FALSE,
              !.recognition = IF r.recognitionRef THEN stop(r.recognition) ELSE r.recognition,
              !.isListening = FALSE,
              !.requested = FALSE]

\* recognition.onstart
recognition_onstart(r) ==
    [r EXCEPT !.recognition = "running", !.isListening = TRUE, !.error = "none"]

\* the errors of a SpeechRecognitionErrorEvent that the handler tells apart
RecognitionErrors == {"no-speech", "not-allowed", "network", "aborted"}

\* a recognition.onerror that keeps restarting after "not-allowed"
recognition_onerror_keepsRestarting(r, e) ==
    IF e = "no-speech" THEN r
    ELSE [r EXCEPT !.error = e,
                   !.requested = IF e = "not-allowed" THEN FALSE ELSE r.requested]

\* recognition.onerror
recognition_onerror(r, e) ==
    IF e = "no-speech" THEN r
    ELSE IF e = "not-allowed"
    THEN [r EXCEPT !.error = e, !.shouldRestartRef = FALSE, !.requested = FALSE]
    ELSE [r EXCEPT !.error = e]

\* recognition.onend: the recognition has ended and is idle when it runs
recognition_onend(r) ==
    LET ended == [r EXCEPT !.recognition = "idle", !.isListening = FALSE]
    IN  IF r.shouldRestartRef
        THEN [ended EXCEPT !.recognition = start("idle"), !.restarts = r.restarts + 1]
        ELSE ended

\* the hook after startListening and onstart
ActiveSpeech == recognition_onstart(speechStartListening(InitSpeech))

\* ------------------------------------------------------------------------
\* Initial state
\* ------------------------------------------------------------------------
InitConfig ==
    /\ impl \in {"class", "hook", "speech"}
    /\ audioSource \in {"microphone", "computer", "both"}
    /\ canUseSystemAudio \in BOOLEAN
    /\ impl = "speech" => (audioSource = "microphone" /\ ~canUseSystemAudio)

InitBufferVars ==
    /\ now = 0
    /\ wsBuffer = << >>
    /\ transcriptBuffer = << >>
    /\ transcript = Empty
    /\ interimTranscript = Empty
    /\ wsTranscript = Empty
    /\ wsInterimTranscript = Empty
    /\ appended = << >>
    /\ commits = 0
    /\ lastQuery = NoQuery
    /\ lastOp = NoOp

\* the session after a first startListening has run, without a failure, up
\* to session_started (or to the end of scribe.connect)
ActiveSt ==
    IF impl = "speech" THEN InitSt
    ELSE IF useWsMode
    THEN LET s0 == [InitSt EXCEPT !.nstarts = 1,
                                  !.isConnecting = (impl = "class"),
                                  !.mic[1] = IF audioSource = "both" THEN "live" ELSE "none"]
             s1 == OpenSocket(AfterDisplay(s0, 1, "audio"), 1)
         IN  onSessionStarted([s1 EXCEPT !.sock[1] = "open"], 1)
    ELSE [InitSt EXCEPT !.nstarts = 1, !.call[1] = "done", !.tokenRequests = 1,
                        !.scribeConnected = TRUE,
                        !.error = IF needsSystemAudio /\ ~canUseSystemAudio
                                  THEN "FallbackNotice" ELSE "none"]

\* A session is running and delivers events.  The buffer behaves the same
\* whatever makes the hook choose the WebSocket session, and handleCommitted
\* is the same code in "class" and "hook", so one configuration of each kind
\* is enough here.
InitBuffer ==
    /\ InitConfig
    /\ canUseSystemAudio = (impl # "speech")
    /\ audioSource \in {"microphone", "both"}
    /\ impl = "class" => audioSource = "both"
    /\ InitBufferVars
    /\ wsTranscriptionRef = (impl = "class" /\ useWsMode)
    /\ st = ActiveSt
    /\ jargon = InitJargon
    /\ page = InitPage
    /\ speech = IF impl = "speech" THEN ActiveSpeech ELSE InitSpeech

\* ------------------------------------------------------------------------
\* Operations on the buffer and the live transcript
\* ------------------------------------------------------------------------

\* time passes
Tick ==
    /\ now < MaxTicks * TickMs
    /\ now' = now + TickMs
    /\ lastOp' = NoOp
    /\ lastQuery' = NoQuery
    /\ UNCHANGED <<wsBuffer, transcriptBuffer, transcript, interimTranscript,
                   wsTranscript, wsInterimTranscript, appended, commits>>
    /\ UNCHANGED sessionConfig

\* setTranscript((prev) => (prev + " " + text).trim())
AppendText(prev, text) == trim(prev \o Space \o text)

\* the committed_transcript branch testing the text as received, not trimmed
WsCommittedBody_untrimmedGuard(raw) ==
    LET text == trim(raw) IN
    IF Truthy(raw)
    THEN /\ wsBuffer' = Append(cleanBuffer(wsBuffer, now), [text |-> text, timestamp |-> now])
         /\ appended' = Append(appended, [text |-> trim(raw), timestamp |-> now])
         /\ IF impl = "class"
            THEN /\ transcript' = AppendText(transcript, text)
                 /\ interimTranscript' = Empty
                 /\ UNCHANGED <<wsTranscript, wsInterimTranscript>>
            ELSE /\ wsTranscript' = AppendText(wsTranscript, text)
                 /\ wsInterimTranscript' = Empty
                 /\ UNCHANGED <<transcript, interimTranscript>>
    ELSE UNCHANGED <<wsBuffer, appended, transcript, interimTranscript,
                     wsTranscript, wsInterimTranscript>>

\* the committed_transcript branch of ws.onmessage, with the callbacks it calls
WsCommittedBody(raw) ==
    LET text == trim(raw) IN
    IF Truthy(text)
    THEN /\ wsBuffer' = Append(cleanBuffer(wsBuffer, now), [text |-> text, timestamp |-> now])
         /\ appended' = Append(appended, [text |-> trim(raw), timestamp |-> now])
         /\ IF impl = "class"
            THEN /\ transcript' = AppendText(transcript, text)
                 /\ interimTranscript' = Empty
                 /\ UNCHANGED <<wsTranscript, wsInterimTranscript>>
            ELSE /\ wsTranscript' = AppendText(wsTranscript, text)
                 /\ wsInterimTranscript' = Empty
                 /\ UNCHANGED <<transcript, interimTranscript>>
    ELSE UNCHANGED <<wsBuffer, appended, transcript, interimTranscript,
                     wsTranscript, wsInterimTranscript>>

\* the partial_transcript branch of ws.onmessage: msg.text || ""
WsPartialBody(raw) ==
    IF impl = "class"
    THEN /\ interimTranscript' = raw
         /\ UNCHANGED wsInterimTranscript
    ELSE /\ wsInterimTranscript' = raw
         /\ UNCHANGED interimTranscript

\* handleCommitted pushing the text as received and leaving the interim text
handleCommittedBody_untrimmed(raw) ==
    IF Truthy(trim(raw))
    THEN /\ transcriptBuffer' = Append(cleanBuffer(transcriptBuffer, now),
                                       [text |-> raw, timestamp |-> now])
         /\ appended' = Append(appended, [text |-> trim(raw), timestamp |-> now])
         /\ transcript' = AppendText(transcript, raw)
         /\ UNCHANGED interimTranscript
    ELSE UNCHANGED <<transcriptBuffer, appended, transcript, interimTranscript>>

\* handleCommitted, the onCommittedTranscript callback of useScribe
handleCommittedBody(raw) ==
    IF Truthy(trim(raw))
    THEN /\ transcriptBuffer' = Append(cleanBuffer(transcriptBuffer, now),
                                       [text |-> trim(raw), timestamp |-> now])
         /\ appended' = Append(appended, [text |-> trim(raw), timestamp |-> now])
         /\ transcript' = AppendText(transcript, raw)
         /\ interimTranscript' = Empty
    ELSE UNCHANGED <<transcriptBuffer, appended, transcript, interimTranscript>>

Pushed(raw) == IF Truthy(trim(raw)) THEN 1 ELSE 0

\* the session delivers transcript events: a socket is open, or the Scribe
\* SDK session is connected
Receiving ==
    IF useWsMode THEN \E k \in Calls : st.sock[k] = "open" ELSE st.scribeConnected

\* a committed transcript arrives on the raw WebSocket session
WsCommitted(raw) ==
    /\ impl # "speech"
    /\ useWsMode
    /\ Receiving
    /\ commits < MaxCommits
    /\ WsCommittedBody(raw)
    /\ commits' = commits + Pushed(raw)
    /\ lastOp' = [op |-> "committed", text |-> raw, pushed |-> Pushed(raw)]
    /\ lastQuery' = NoQuery
    /\ UNCHANGED <<now, transcriptBuffer>>
    /\ UNCHANGED sessionConfig

\* a partial transcript arrives on the raw WebSocket session
WsPartial(raw) ==
    /\ impl # "speech"
    /\ useWsMode
    /\ Receiving
    /\ WsPartialBody(raw)
    /\ lastOp' = NoOp
    /\ lastQuery' = NoQuery
    /\ UNCHANGED <<now, wsBuffer, transcriptBuffer, transcript, wsTranscript, appended, commits>>
    /\ UNCHANGED sessionConfig

\* a committed transcript arrives on the Scribe SDK session
ScribeCommitted(raw) ==
    /\ impl # "speech"
    /\ ~useWsMode
    /\ Receiving
    /\ commits < MaxCommits
    /\ handleCommittedBody(raw)
    /\ commits' = commits + Pushed(raw)
    /\ lastOp' = [op |-> "committed", text |-> raw, pushed |-> Pushed(raw)]
    /\ lastQuery' = NoQuery
    /\ UNCHANGED <<now, wsBuffer, wsTranscript, wsInterimTranscript>>
    /\ UNCHANGED sessionConfig

\* handlePartial, the onPartialTranscript callback of useScribe
ScribePartial(raw) ==
    /\ impl # "speech"
    /\ ~useWsMode
    /\ Receiving
    /\ interimTranscript' = raw
    /\ lastOp' = NoOp
    /\ lastQuery' = NoQuery
    /\ UNCHANGED <<now, wsBuffer, transcriptBuffer, transcript, wsTranscript,
                   wsInterimTranscript, appended, commits>>
    /\ UNCHANGED sessionConfig

\* recognition.onresult of the legacy hook: every final result is pushed,
\* then the buffer is cleaned when there was one
RECURSIVE FinalText(_)
FinalText(results) ==
    IF results = << >> THEN Empty
    ELSE (IF Head(results).isFinal THEN Head(results).transcript \o Space ELSE Empty)
         \o FinalText(Tail(results))

RECURSIVE InterimText(_)
InterimText(results) ==
    IF results = << >> THEN Empty
    ELSE (IF Head(results).isFinal THEN Empty ELSE Head(results).transcript)
         \o InterimText(Tail(results))

RECURSIVE FinalEntries(_, _)
FinalEntries(results, t) ==
    IF results = << >> THEN << >>
    ELSE (IF Head(results).isFinal
          THEN << [text |-> trim(Head(results).transcript), timestamp |-> t, isFinal |-> TRUE] >>
          ELSE << >>)
         \o FinalEntries(Tail(results), t)

onresult(results) ==
    /\ impl = "speech"
    /\ commits + Len(FinalEntries(results, now)) <= MaxCommits
    /\ LET finalText == FinalText(results)
           pushed == transcriptBuffer \o FinalEntries(results, now)
       IN /\ IF Truthy(finalText)
             THEN /\ transcriptBuffer' = cleanBuffer(pushed, now)
                  /\ transcript' = AppendText(transcript, finalText)
             ELSE /\ transcriptBuffer' = pushed
                  /\ UNCHANGED transcript
          /\ interimTranscript' = InterimText(results)
          /\ appended' = appended \o [i \in 1..Len(FinalEntries(results, now)) |->
                            [text |-> FinalEntries(results, now)[i].text, timestamp |-> now]]
          /\ commits' = commits + Len(FinalEntries(results, now))
          /\ lastOp' = [op |-> "result", text |-> finalText,
                        pushed |-> Len(FinalEntries(results, now))]
    /\ lastQuery' = NoQuery
    /\ UNCHANGED <<now, wsBuffer, wsTranscript, wsInterimTranscript>>
    /\ UNCHANGED sessionConfig

\* what getBufferedTranscript(seconds) of the hook returns now
QueryOf(seconds) ==
    [valid |-> TRUE, seconds |-> seconds, at |-> now,
     held |-> ActiveBuffer,
     result |-> IF impl = "speech"
                THEN SpeechBufferedTranscriptOf(ActiveBuffer, now, seconds)
                ELSE getBufferedTranscriptOf(ActiveBuffer, now, seconds)]

\* getBufferedTranscript(seconds) of the hook
getBufferedTranscript(seconds) ==
    /\ lastQuery' = QueryOf(seconds)
    /\ lastOp' = NoOp
    /\ UNCHANGED <<now, wsBuffer, transcriptBuffer, transcript, interimTranscript,
                   wsTranscript, wsInterimTranscript, appended, commits>>
    /\ UNCHANGED sessionConfig

\* clearTranscript of the hook: what it does to the buffer and the transcript
clearTranscriptBody ==
    /\ IF impl = "hook" /\ useWsMode
       THEN /\ wsBuffer' = << >>
            /\ wsTranscript' = Empty
            /\ wsInterimTranscript' = Empty
            /\ UNCHANGED <<transcriptBuffer, transcript, interimTranscript>>
       ELSE /\ wsBuffer' = IF impl = "class" /\ wsTranscriptionRef THEN << >> ELSE wsBuffer
            /\ transcriptBuffer' = << >>
            /\ transcript' = Empty
            /\ interimTranscript' = Empty
            /\ UNCHANGED <<wsTranscript, wsInterimTranscript>>
    /\ appended' = << >>
    /\ lastOp' = NoOp
    /\ lastQuery' = NoQuery
    /\ UNCHANGED <<now, commits>>

\* clearTranscript of the hook
clearTranscript ==
    /\ clearTranscriptBody
    /\ UNCHANGED sessionConfig

\* interim texts and recognition results the services may deliver
PartialTexts == { <<"foo">>, Empty }
SpeechResult == { [transcript |-> <<"hello">>, isFinal |-> TRUE],
                  [transcript |-> <<" ">>, isFinal |-> TRUE],
                  [transcript |-> <<"foo">>, isFinal |-> FALSE] }
SpeechResults == { <<r>> : r \in SpeechResult } \cup { <<r, q>> : r \in SpeechResult, q \in SpeechResult }

NextBuffer ==
    \/ Tick
    \/ \E raw \in RawTexts : WsCommitted(raw)
    \/ \E raw \in PartialTexts : WsPartial(raw)
    \/ \E raw \in RawTexts : ScribeCommitted(raw)
    \/ \E raw \in PartialTexts : ScribePartial(raw)
    \/ \E results \in SpeechResults : onresult(results)
    \/ \E seconds \in Windows : getBufferedTranscript(seconds)
    \/ clearTranscript

\* ------------------------------------------------------------------------
\* Transcription session: operations
\* ------------------------------------------------------------------------
bufferState == <<now, wsBuffer, transcriptBuffer, transcript, interimTranscript,
                 wsTranscript, wsInterimTranscript, appended, commits>>

NoFrame(s) ==
    [s EXCEPT !.frame = [to |-> 0, started |-> FALSE, dropped |-> FALSE],
              !.cancelled = {k \in @ : s.call[k] \notin {"done", "failed"}}]

\* a step of the session that is neither a committed transcript nor a query
SessionStep ==
    /\ lastOp' = NoOp
    /\ lastQuery' = NoQuery
    /\ UNCHANGED config

\* a start that refuses to run without system-audio capability
startListening_noFallback ==
    /\ impl # "speech"
    /\ ~isListening(st) /\ ~isConnecting(st)
    /\ st.nstarts < MaxStarts
    /\ LET k == st.nstarts + 1
       IN  st' = NoFrame([st EXCEPT !.nstarts = k, !.call[k] = "failed",
                                    !.error = "SystemAudioUnavailable"])
    /\ UNCHANGED <<bufferState, wsTranscriptionRef>>
    /\ SessionStep

\* startListening up to its first await; the Recording page offers it only
\* while the hook is neither listening nor connecting
startListening ==
    /\ impl # "speech"
    /\ ~isListening(st) /\ ~isConnecting(st)
    /\ st.nstarts < MaxStarts
    /\ LET k == st.nstarts + 1
           s0 == [st EXCEPT !.nstarts = k, !.error = "none",
                            !.isConnecting = IF impl = "class" THEN TRUE ELSE st.isConnecting]
       IN  st' = NoFrame(IF useWsMode
                 THEN [s0 EXCEPT !.call[k] = IF audioSource = "both" THEN "mic" ELSE "display"]
                 ELSE [s0 EXCEPT !.call[k] = "scribeToken",
                                 !.error = IF needsSystemAudio /\ ~canUseSystemAudio
                                           THEN "FallbackNotice" ELSE "none",
                                 !.scribeConnecting = IF impl = "hook" THEN TRUE ELSE st.scribeConnecting,
                                 !.tokenRequests = st.tokenRequests + 1])
    /\ UNCHANGED <<bufferState, wsTranscriptionRef>>
    /\ SessionStep

\* navigator.mediaDevices.getUserMedia settles ("both" only)
getUserMedia(k, ok) ==
    /\ st.call[k] = "mic"
    /\ st' = NoFrame(IF ok THEN [st EXCEPT !.mic[k] = "live", !.call[k] = "display"]
             ELSE StartFailed(st, k, "PermissionDenied"))
    /\ UNCHANGED <<bufferState, wsTranscriptionRef>>
    /\ SessionStep

\* navigator.mediaDevices.getDisplayMedia settles; startListening runs on to
\* the token request inside connect
getDisplayMedia(k, outcome) ==
    /\ st.call[k] = "display"
    /\ st' = NoFrame(AfterDisplay(st, k, outcome))
    /\ wsTranscriptionRef' =
          (wsTranscriptionRef \/
           (impl = "class" /\ (outcome # "fail" \/ AfterDisplay(st, k, outcome).call[k] = "token")))
    /\ UNCHANGED bufferState
    /\ SessionStep

\* the token function answers with a token
tokenReceived(k) ==
    /\ st.call[k] = "token"
    /\ st' = NoFrame(OpenSocket(st, k))
    /\ UNCHANGED <<bufferState, wsTranscriptionRef>>
    /\ SessionStep

\* the token function fails or answers without a token
tokenFailed(k) ==
    /\ st.call[k] = "token"
    /\ st' = NoFrame(TokenFailed(st, k))
    /\ UNCHANGED <<bufferState, wsTranscriptionRef>>
    /\ SessionStep

\* Scribe SDK mode: the token function settles; finally { connecting = false }
scribeToken(k, ok) ==
    /\ st.call[k] = "scribeToken"
    /\ st' = NoFrame(IF ok THEN [st EXCEPT !.call[k] = "scribeConnect"]
             ELSE [st EXCEPT !.call[k] = "failed", !.error = "TokenUnavailable",
                             !.isConnecting = IF impl = "class" THEN FALSE ELSE st.isConnecting,
                             !.scribeConnecting = FALSE])
    /\ UNCHANGED <<bufferState, wsTranscriptionRef>>
    /\ SessionStep

\* a connect that clears the notice once the session is up
scribeConnect_clearsError(k, ok) ==
    /\ st.call[k] = "scribeConnect"
    /\ st' = NoFrame([st EXCEPT !.call[k] = IF ok THEN "done" ELSE "failed",
                        !.scribeConnected = IF ok THEN TRUE ELSE st.scribeConnected,
                        !.error = IF ok THEN "none" ELSE "PermissionDenied",
                        !.isConnecting = IF impl = "class" THEN FALSE ELSE st.isConnecting,
                        !.scribeConnecting = FALSE])
    /\ UNCHANGED <<bufferState, wsTranscriptionRef>>
    /\ SessionStep

\* Scribe SDK mode: scribe.connect settles; finally { connecting = false }
scribeConnect(k, ok) ==
    /\ st.call[k] = "scribeConnect"
    /\ st' = NoFrame([st EXCEPT !.call[k] = IF ok THEN "done" ELSE "failed",
                        !.scribeConnected = IF ok THEN TRUE ELSE st.scribeConnected,
                        !.error = IF ok THEN st.error ELSE "PermissionDenied",
                        !.isConnecting = IF impl = "class" THEN FALSE ELSE st.isConnecting,
                        !.scribeConnecting = FALSE])
    /\ UNCHANGED <<bufferState, wsTranscriptionRef>>
    /\ SessionStep

\* the Scribe SDK session ends on its side
scribeDisconnected ==
    /\ impl # "speech"
    /\ st.scribeConnected
    /\ st' = NoFrame([st EXCEPT !.scribeConnected = FALSE])
    /\ UNCHANGED <<bufferState, wsTranscriptionRef>>
    /\ SessionStep

\* stopListening; the Recording page offers it while listening or connecting
stopListening ==
    /\ impl # "speech"
    /\ isListening(st) \/ isConnecting(st)
    /\ st' = NoFrame([stopListeningOf(st) EXCEPT !.cancelled = @ \cup StartsInProgress(st)])
    /\ UNCHANGED <<bufferState, wsTranscriptionRef>>
    /\ SessionStep

\* the WebSocket handshake completes (ws.onopen)
socketOpen(k) ==
    /\ st.sock[k] = "connecting"
    /\ st' = NoFrame([st EXCEPT !.sock[k] = "open"])
    /\ UNCHANGED <<bufferState, wsTranscriptionRef>>
    /\ SessionStep

\* ws.onmessage: session_started, which the service sends once per connection
sessionStarted(k) ==
    /\ st.sock[k] = "open"
    /\ ~st.started[k]
    /\ st' = NoFrame(onSessionStarted(st, k))
    /\ UNCHANGED <<bufferState, wsTranscriptionRef>>
    /\ SessionStep

\* ws.onmessage: a message whose message_type includes "error"
errorMessage(k) ==
    /\ st.sock[k] = "open"
    /\ st' = NoFrame(onErrorMessage(st, k))
    /\ UNCHANGED <<bufferState, wsTranscriptionRef>>
    /\ SessionStep

\* the transport fails: ws.onerror runs and the browser closes the socket
transportError(k) ==
    /\ st.sock[k] \in {"connecting", "open", "closing"}
    /\ st' = NoFrame([onerror(st, k) EXCEPT !.sock[k] = CloseSocket(onerror(st, k).sock[k])])
    /\ UNCHANGED <<bufferState, wsTranscriptionRef>>
    /\ SessionStep

\* the socket is closed, by the service or after close(): ws.onclose runs
closeEvent(k) ==
    /\ st.sock[k] \in {"connecting", "open", "closing"}
    /\ st' = NoFrame(onclose([st EXCEPT !.sock[k] = "closed"], k))
    /\ UNCHANGED <<bufferState, wsTranscriptionRef>>
    /\ SessionStep

\* the user stops sharing: the audio track of the display stream ends
trackEnded(k) ==
    /\ st.display[k] = "live"
    /\ st' = NoFrame(onended([st EXCEPT !.display[k] = "stopped"]))
    /\ UNCHANGED <<bufferState, wsTranscriptionRef>>
    /\ SessionStep

\* the socket a capture graph sends to: this.ws in the class, the ws of the
\* closure in the hook
Target(s, g) == IF impl = "class" THEN s.ws ELSE g

\* an onaudioprocess that sends to its socket whatever the readyState
onaudioprocess_unchecked(g) ==
    /\ st.graph[g] = "live"
    /\ st' = [st EXCEPT !.frame =
                 IF Target(st, g) # 0
                 THEN [to |-> Target(st, g), started |-> st.started[Target(st, g)],
                       dropped |-> FALSE]
                 ELSE [to |-> 0, started |-> FALSE, dropped |-> TRUE]]
    /\ UNCHANGED <<bufferState, wsTranscriptionRef>>
    /\ SessionStep

\* processor.onaudioprocess of capture graph g: the frame is sent when the
\* socket is open and dropped otherwise
onaudioprocess(g) ==
    /\ st.graph[g] = "live"
    /\ st' = [st EXCEPT !.frame =
                 IF Target(st, g) # 0 /\ st.sock[Target(st, g)] = "open"
                 THEN [to |-> Target(st, g), started |-> st.started[Target(st, g)],
                       dropped |-> FALSE]
                 ELSE [to |-> 0, started |-> FALSE, dropped |-> TRUE]]
    /\ UNCHANGED <<bufferState, wsTranscriptionRef>>
    /\ SessionStep

\* how getDisplayMedia settles: with an audio track, without one, or rejected
DisplayOutcomes == { "audio", "noaudio", "fail" }

NextSession ==
    \/ startListening
    \/ \E k \in Calls, ok \in BOOLEAN : getUserMedia(k, ok)
    \/ \E k \in Calls, outcome \in DisplayOutcomes : getDisplayMedia(k, outcome)
    \/ \E k \in Calls : tokenReceived(k)
    \/ \E k \in Calls : tokenFailed(k)
    \/ \E k \in Calls, ok \in BOOLEAN : scribeToken(k, ok)
    \/ \E k \in Calls, ok \in BOOLEAN : scribeConnect(k, ok)
    \/ scribeDisconnected
    \/ stopListening
    \/ \E k \in Calls : socketOpen(k)
    \/ \E k \in Calls : sessionStarted(k)
    \/ \E k \in Calls : errorMessage(k)
    \/ \E k \in Calls : transportError(k)
    \/ \E k \in Calls : closeEvent(k)
    \/ \E k \in Calls : trackEnded(k)
    \/ \E g \in Calls : onaudioprocess(g)

InitSession ==
    /\ InitConfig
    /\ impl # "speech"
    /\ InitBufferVars
    /\ wsTranscriptionRef = FALSE
    /\ st = InitSt
    /\ jargon = InitJargon
    /\ page = InitPage
    /\ speech = InitSpeech

vars == <<impl, audioSource, canUseSystemAudio, now, wsBuffer, transcriptBuffer,
          transcript, interimTranscript, wsTranscript, wsInterimTranscript,
          st, wsTranscriptionRef, appended, commits, lastQuery, lastOp, jargon, page,
          speech>>

SpecBuffer == InitBuffer /\ [][NextBuffer]_vars

SpecSession == InitSession /\ [][NextSession]_vars

\* ------------------------------------------------------------------------
\* The live transcript across sessions: the session operations together with
\* the transcript events and clearTranscript, from an active session
\* ------------------------------------------------------------------------
LiveTexts == { <<"hello">> }
LivePartials == { <<"foo">> }

NextLive ==
    \/ NextSession
    \/ \E raw \in LiveTexts : commits < MaxLiveCommits /\ WsCommitted(raw)
    \/ \E raw \in LivePartials : WsPartial(raw)
    \/ \E raw \in LiveTexts : commits < MaxLiveCommits /\ ScribeCommitted(raw)
    \/ \E raw \in LivePartials : ScribePartial(raw)
    \/ clearTranscript

InitLive == InitBuffer /\ impl # "speech"

SpecLive == InitLive /\ [][NextLive]_vars

\* ------------------------------------------------------------------------
\* Jargon detection: operations
\* ------------------------------------------------------------------------
\* transcripts the page may pass to the hook
DetectTexts == { Empty, <<" ">>, <<"hello">>, <<"hello", " ", "world">> }

\* what detect-jargon-batch may answer: a list of words, a body without a
\* list, an error, or a rejected invocation
WordLists == { << >>, <<"API">>, <<"api", "Roi">> }
DetectionOutcomes ==
    { [kind |-> "words", words |-> w] : w \in WordLists }
        \cup { [kind |-> k, words |-> << >>] : k \in {"nolist", "error", "rejected"} }

transcription == <<impl, audioSource, canUseSystemAudio, now, wsBuffer, transcriptBuffer,
                   transcript, interimTranscript, wsTranscript, wsInterimTranscript,
                   st, wsTranscriptionRef, appended, commits, lastQuery, lastOp, page,
                   speech>>

NoSettle(j) == [j EXCEPT !.failed = FALSE]

\* the page renders with another transcript or listening state: the effect runs
Render(t, l) ==
    /\ <<t, l>> # <<jargon.transcript, jargon.isListening>>
    /\ Len(detectionEffect([jargon EXCEPT !.transcript = t, !.isListening = l]).calls) <= MaxDetections
    /\ jargon' = NoSettle(detectionEffect([jargon EXCEPT !.transcript = t, !.isListening = l]))
    /\ UNCHANGED transcription

\* the interval tm fires
IntervalFires(tm) ==
    /\ tm \in jargon.timers
    /\ tm.due <= jargon.clock
    /\ Len(intervalCallback(jargon, tm).calls) <= MaxDetections
    /\ jargon' = NoSettle(intervalCallback(jargon, tm))
    /\ UNCHANGED transcription

\* detect-jargon-batch answers call i
DetectionSettles(i, outcome) ==
    /\ i \in 1..Len(jargon.calls)
    /\ jargon.calls[i].open
    /\ jargon' = detectJargonSettled(jargon, i, outcome)
    /\ UNCHANGED transcription

\* time passes; a due interval fires first
Elapse ==
    /\ jargon.clock < MaxDetectSteps * DetectStepMs
    /\ \A tm \in jargon.timers : tm.due > jargon.clock
    /\ jargon' = NoSettle([jargon EXCEPT !.clock = @ + DetectStepMs])
    /\ UNCHANGED transcription

NextJargon ==
    \/ \E t \in DetectTexts, l \in BOOLEAN : Render(t, l)
    \/ \E tm \in jargon.timers : IntervalFires(tm)
    \/ \E i \in 1..MaxDetections, outcome \in DetectionOutcomes : DetectionSettles(i, outcome)
    \/ Elapse

\* words the page may ask about, and what explain-word may answer: a body
\* with isJargon and an explanation or none, an error, a rejected invocation
ExplainWords == { "API", "api", "Roi" }
Explanations == { "null", "e1", "e2" }
ExplainOutcomes ==
    { [kind |-> "data", isJargon |-> b, explanation |-> e] : b \in BOOLEAN, e \in Explanations }
        \cup { [kind |-> k, isJargon |-> FALSE, explanation |-> "null"] : k \in {"error", "rejected"} }

\* the page calls explainWord(word, context)
explainWord(word) ==
    /\ Len(jargon.requests) < MaxExplains
    /\ jargon' = NoSettle(explainWordCalled(jargon, word))
    /\ UNCHANGED transcription

\* explain-word answers request i
ExplainSettles(i, outcome) ==
    /\ i \in 1..Len(jargon.requests)
    /\ jargon.requests[i].open
    /\ jargon' = explainWordSettled(jargon, i, outcome)
    /\ UNCHANGED transcription

NextExplain ==
    \/ \E word \in ExplainWords : explainWord(word)
    \/ \E i \in 1..MaxExplains, outcome \in ExplainOutcomes : ExplainSettles(i, outcome)

InitJargonSpec ==
    /\ impl = "hook"
    /\ audioSource = "microphone"
    /\ canUseSystemAudio = FALSE
    /\ InitBufferVars
    /\ wsTranscriptionRef = FALSE
    /\ st = InitSt
    /\ jargon = InitJargon
    /\ page = InitPage
    /\ speech = InitSpeech

SpecJargon == InitJargonSpec /\ [][NextJargon]_vars

SpecExplain == InitJargonSpec /\ [][NextExplain]_vars

\* ------------------------------------------------------------------------
\* Recording page: operations
\* ------------------------------------------------------------------------
hooks == <<impl, audioSource, canUseSystemAudio, wsTranscriptionRef, st, jargon, speech>>

\* a step of the page that leaves the buffer and the transcript alone
PageStep ==
    /\ lastOp' = NoOp
    /\ UNCHANGED bufferState
    /\ UNCHANGED hooks

\* the page shows the capture button, or Stop & Save and Cancel
ShowsCaptureButton == (isListening(st) \/ isConnecting(st)) /\ ~page.isCapturing
ShowsSaveAndCancel == (isListening(st) \/ isConnecting(st)) /\ page.isCapturing

\* saveCapture up to its await, run for a capture by the timeout or the button
saveCapture(p, capture, by) ==
    LET fullTranscript == QueryOf(CaptureWindowSeconds).result
    IN  [p EXCEPT !.isCapturing = FALSE,
                  !.captureTimeout = 0,
                  !.saves = Append(@, [capture |-> capture, by |-> by, text |-> fullTranscript,
                                       state |-> IF Truthy(trim(fullTranscript))
                                                 THEN "insert" ELSE "empty"])]

\* startCapture: the user taps the capture button
startCapture ==
    /\ ShowsCaptureButton
    /\ page.ncaptures < MaxCaptures
    /\ LET k == page.ncaptures + 1
       IN  page' = [page EXCEPT !.isCapturing = TRUE,
                                !.ncaptures = k,
                                !.timeouts = @ \cup {[id |-> k, due |-> now + CaptureDelayMs]},
                                !.captureTimeout = k]
    /\ lastQuery' = NoQuery
    /\ PageStep

\* a Cancel that forgets the timeout without clearing it
cancelCapture_keepsTimeout ==
    /\ ShowsSaveAndCancel
    /\ page' = [page EXCEPT !.captureTimeout = 0,
                            !.isCapturing = FALSE,
                            !.cancelled = @ \cup {page.ncaptures}]
    /\ lastQuery' = NoQuery
    /\ PageStep

\* cancelCapture: the user taps Cancel
cancelCapture ==
    /\ ShowsSaveAndCancel
    /\ page' = [page EXCEPT !.timeouts = { tm \in @ : tm.id # page.captureTimeout },
                            !.captureTimeout = 0,
                            !.isCapturing = FALSE,
                            !.cancelled = @ \cup {page.ncaptures}]
    /\ lastQuery' = NoQuery
    /\ PageStep

\* the user taps Stop & Save: saveCapture runs up to the insert
stopAndSave ==
    /\ ShowsSaveAndCancel
    /\ page' = saveCapture(page, page.ncaptures, "button")
    /\ lastQuery' = QueryOf(CaptureWindowSeconds)
    /\ PageStep

\* the timeout tm fires: saveCapture runs up to the insert
timeoutFires(tm) ==
    /\ tm \in page.timeouts
    /\ tm.due <= now
    /\ page' = saveCapture([page EXCEPT !.timeouts = @ \ {tm}, !.fired = Append(@, tm.id)],
                           tm.id, "timeout")
    /\ lastQuery' = QueryOf(CaptureWindowSeconds)
    /\ PageStep

\* a save that clears the transcript whether or not the row was written
insertSettles_clearsAnyway(i, ok) ==
    /\ i \in 1..Len(page.saves)
    /\ page.saves[i].state = "insert"
    /\ page' = [page EXCEPT !.saves[i].state = IF ok THEN "saved" ELSE "failed",
                            !.moments = IF ok THEN Append(@, page.saves[i].text) ELSE @,
                            !.cleared = @ + 1]
    /\ clearTranscriptBody
    /\ UNCHANGED hooks

\* the insert of save i into captured_moments settles: on success the row
\* exists and saveCapture clears the transcript
insertSettles(i, ok) ==
    /\ i \in 1..Len(page.saves)
    /\ page.saves[i].state = "insert"
    /\ IF ok
       THEN /\ page' = [page EXCEPT !.saves[i].state = "saved",
                                    !.moments = Append(@, page.saves[i].text),
                                    !.cleared = @ + 1]
            /\ clearTranscriptBody
            /\ UNCHANGED hooks
       ELSE /\ page' = [page EXCEPT !.saves[i].state = "failed"]
            /\ lastQuery' = NoQuery
            /\ PageStep

\* time passes; a timeout that is due fires first
CaptureTick ==
    /\ now < MaxCaptureTicks * TickMs
    /\ \A tm \in page.timeouts : tm.due > now
    /\ Tick

NextCapture ==
    \/ startCapture
    \/ cancelCapture
    \/ stopAndSave
    \/ \E tm \in page.timeouts : timeoutFires(tm)
    \/ \E i \in 1..(2 * MaxCaptures), ok \in BOOLEAN : insertSettles(i, ok)
    \/ CaptureTick
    \/ \E raw \in LiveTexts : commits < MaxLiveCommits /\ WsCommitted(raw)
    \/ \E raw \in LiveTexts : commits < MaxLiveCommits /\ ScribeCommitted(raw)

\* the Recording page on the useElevenLabsTranscription hook, listening
InitCapture == InitBuffer /\ impl = "hook"

SpecCapture == InitCapture /\ [][NextCapture]_vars

\* ------------------------------------------------------------------------
\* Properties of the rolling buffer
\* ------------------------------------------------------------------------
IsChronological(buf) ==
    \A i \in 1..Len(buf) : \A j \in i..Len(buf) : buf[i].timestamp <= buf[j].timestamp

\* the texts of the segments, in order, with one space between neighbours
RECURSIVE SpaceJoined(_)
SpaceJoined(segs) ==
    IF segs = << >> THEN Empty
    ELSE IF Len(segs) = 1 THEN segs[1].text
    ELSE SpaceJoined(SubSeq(segs, 1, Len(segs) - 1)) \o <<" ">> \o segs[Len(segs)].text

AgeAtQuery(e) == lastQuery.at - e.timestamp
\* the held segments at most `seconds` old, and those less than `seconds` old
AtMostOld(seconds) == SelectSeq(lastQuery.held, LAMBDA e : AgeAtQuery(e) <= seconds * 1000)
LessOld(seconds) == SelectSeq(lastQuery.held, LAMBDA e : AgeAtQuery(e) < seconds * 1000)

QueryOfSession == lastQuery.valid /\ impl # "speech"

\* C1 (as claimed): query(w) returns exactly the held segments with
\* timestamp >= now - w, a segment exactly w seconds old included, in
\* chronological order, joined by single spaces, and "" when none match.
C1_QueryInclusive ==
    QueryOfSession =>
        /\ IsChronological(lastQuery.held)
        /\ lastQuery.result = SpaceJoined(AtMostOld(lastQuery.seconds))

\* C1 (amended): query(w) returns exactly the held segments with
\* timestamp > now - w, a segment exactly w seconds old excluded, in
\* chronological order, joined by single spaces, and "" when none match.
C1_QueryExclusive ==
    QueryOfSession =>
        /\ IsChronological(lastQuery.held)
        /\ lastQuery.result = SpaceJoined(LessOld(lastQuery.seconds))
        /\ (LessOld(lastQuery.seconds) = << >> => lastQuery.result = Empty)

\* a query that holds a segment exactly w seconds old and returns another one
C1_Witness ==
    /\ QueryOfSession
    /\ \E i \in 1..Len(lastQuery.held) : AgeAtQuery(lastQuery.held[i]) = lastQuery.seconds * 1000
    /\ Len(LessOld(lastQuery.seconds)) >= 2

\* the scenario: "hello" at 0 s, "world" at 10 s, "foo" at 70 s, then
\* query(60) at 70 s, nothing cleared in between
Scenario ==
    /\ appended = << [text |-> <<"hello">>, timestamp |-> 0],
                     [text |-> <<"world">>, timestamp |-> 10 * 1000],
                     [text |-> <<"foo">>, timestamp |-> 70 * 1000] >>
    /\ lastQuery.valid
    /\ lastQuery.seconds = 60
    /\ lastQuery.at = 70 * 1000

\* C2 (as claimed): in the scenario query(60) returns "world foo": the append
\* at 70 s evicts the segment of 0 s and keeps the segment of 10 s.
C2_ScenarioWorldFoo ==
    Scenario =>
        /\ lastQuery.result = <<"world", " ", "foo">>
        /\ Texts(lastQuery.held) = << <<"world">>, <<"foo">> >>

\* C2 (amended): in the scenario query(60) returns "foo": the append at 70 s
\* evicts the segment of 0 s and also the segment of 10 s, which is exactly
\* 60 s old.
C2_ScenarioFoo ==
    Scenario =>
        /\ lastQuery.result = <<"foo">>
        /\ Texts(lastQuery.held) = << <<"foo">> >>

C2_Witness == Scenario

\* the appended segments that are at most 60 s old, and less than 60 s old
AppendedAtMostOld == { i \in 1..Len(appended) : now - appended[i].timestamp <= BUFFER_DURATION_MS }
AppendedLessOld == { i \in 1..Len(appended) : now - appended[i].timestamp < BUFFER_DURATION_MS }

NoSegmentOlderThanRetention ==
    \A i \in 1..Len(ActiveBuffer) : now - ActiveBuffer[i].timestamp <= BUFFER_DURATION_MS

\* C3 (as claimed): an append removes every segment older than 60 s, and in
\* every reachable state the buffer holds no more segments than were appended
\* within the last 60 s.
C3_SizeWithinWindowAlways ==
    /\ lastOp.pushed > 0 => NoSegmentOlderThanRetention
    /\ Len(ActiveBuffer) <= Cardinality(AppendedAtMostOld)

\* C3 (amended): right after an append the buffer holds only segments less
\* than 60 s old and no more segments than were appended less than 60 s ago;
\* between appends eviction does not run, older segments stay.
C3_SizeWithinWindowAfterAppend ==
    lastOp.pushed > 0 =>
        /\ \A i \in 1..Len(ActiveBuffer) : now - ActiveBuffer[i].timestamp < BUFFER_DURATION_MS
        /\ Len(ActiveBuffer) <= Cardinality(AppendedLessOld)

\* an append that evicted: more segments were appended than are held
C3_Witness ==
    /\ lastOp.pushed > 0
    /\ Len(appended) = 3
    /\ Len(ActiveBuffer) = 1
    /\ Cardinality(AppendedLessOld) = 1

LastAppend == appended[Len(appended)].timestamp

\* C4 (as claimed): a query with a window larger than 60 s returns no segment
\* that is older than 60 s at the time of the query.
C4_WideQueryWithinRetention ==
    (lastQuery.valid /\ lastQuery.seconds * 1000 > BUFFER_DURATION_MS) =>
        /\ impl # "speech" => lastQuery.result = SpaceJoined(LessOld(lastQuery.seconds))
        /\ \A i \in 1..Len(LessOld(lastQuery.seconds)) :
               AgeAtQuery(LessOld(lastQuery.seconds)[i]) <= BUFFER_DURATION_MS

\* C4 (amended): a query with a window w larger than 60 s returns the held
\* segments less than w seconds old; each of them was less than 60 s old at
\* the time of the last append, not at the time of the query.
C4_WideQueryWithinWindow ==
    (lastQuery.valid /\ lastQuery.seconds * 1000 > BUFFER_DURATION_MS) =>
        /\ impl # "speech" => lastQuery.result = SpaceJoined(LessOld(lastQuery.seconds))
        /\ \A i \in 1..Len(lastQuery.held) :
               LastAppend - lastQuery.held[i].timestamp < BUFFER_DURATION_MS

\* a query(75) returning a segment that is older than 60 s
C4_Witness ==
    /\ lastQuery.valid
    /\ lastQuery.seconds = CaptureWindowSeconds
    /\ \E i \in 1..Len(LessOld(lastQuery.seconds)) :
           AgeAtQuery(LessOld(lastQuery.seconds)[i]) > BUFFER_DURATION_MS
    /\ lastQuery.result # Empty

IsPrefix(p, s) == Len(p) <= Len(s) /\ SubSeq(s, 1, Len(p)) = p
IsSuffix(p, s) == Len(p) <= Len(s) /\ SubSeq(s, Len(s) - Len(p) + 1, Len(s)) = p
Front(s) == SubSeq(s, 1, Len(s) - 1)

\* C10: a committed transcript event with a non-empty trimmed text appends
\* exactly one segment holding the trimmed text and the current timestamp,
\* appends the text to the committed text and clears the interim text.
C10_CommittedAppends ==
    [][ (lastOp'.op = "committed" /\ Truthy(trim(lastOp'.text))) =>
          /\ ActiveBuffer' # << >>
          /\ ActiveBuffer'[Len(ActiveBuffer')] = [text |-> trim(lastOp'.text), timestamp |-> now']
          /\ IsSuffix(Front(ActiveBuffer'), ActiveBuffer)
          /\ appended' = Append(appended, ActiveBuffer'[Len(ActiveBuffer')])
          /\ IsPrefix(Transcript, Transcript')
          /\ IsSuffix(trim(lastOp'.text), Transcript')
          /\ Len(Transcript') > Len(Transcript)
          /\ InterimTranscript' = Empty ]_vars

\* a padded text was committed as the second held segment
C10_Witness ==
    /\ lastOp.op = "committed"
    /\ lastOp.text = <<" ", "foo", " ">>
    /\ Len(ActiveBuffer) = 2
    /\ ActiveBuffer[2].text = <<"foo">>
    /\ Transcript # <<"foo">>

\* ------------------------------------------------------------------------
\* Properties of the transcription session
\* ------------------------------------------------------------------------
\* a start call is between two of its awaits
Pending(s) ==
    \E k \in Calls : s.call[k] \in {"mic", "display", "token", "scribeToken", "scribeConnect"}

Connected(s, k) == s.sock[k] \in {"connecting", "open"}

\* the step opens a connection on socket k
Opened(k) == st'.sock[k] = "connecting" /\ st.sock[k] # "connecting"

\* everything call k acquired is released: socket closed, capture graph and
\* mixing graph closed, every track of its streams stopped
Released(s, k) ==
    /\ ~Connected(s, k)
    /\ s.graph[k] # "live"
    /\ s.mix[k] # "live"
    /\ s.display[k] # "live"
    /\ s.mic[k] # "live"

\* C5: the session is reported active only after session_started was
\* received on the current connection, and no audio frame is sent to a
\* connection that has not received session_started.
C5_ActiveOnlyAfterSessionStarted ==
    /\ (useWsMode /\ (isListening(st) \/ st.isConnected)) => (st.ws # 0 /\ st.started[st.ws])
    /\ st.frame.to # 0 => st.frame.started

\* C6: an error-typed message or a transport error on the current connection
\* closes the session, surfaces the error and tears everything down: socket
\* closed, capture graph stopped, streams released.
C6_ErrorTearsDown ==
    [][ \A k \in Calls :
          ((errorMessage(k) \/ transportError(k)) /\ st.ws = k /\ st.sock[k] = "open") =>
              /\ ~isListening(st')
              /\ combinedError(st') # "none"
              /\ Released(st', k) ]_vars

\* C7: after stopListening on an active session the connection is closed and
\* every resource the start acquired is released, in every source mode.
C7_StopReleasesAll ==
    [][ \A k \in Calls :
          (stopListening /\ useWsMode /\ isListening(st) /\ st.ws = k) =>
              /\ ~isListening(st')
              /\ Released(st', k) ]_vars

\* C8: when the token function fails or returns no token, the start fails
\* with TokenUnavailable surfaced to the caller, no connection is opened, and
\* the hook is neither connecting nor listening.
C8_TokenFailureFailsStart ==
    [][ \A k \in Calls :
          (tokenFailed(k) \/ scribeToken(k, FALSE)) =>
              /\ st'.call[k] = "failed"
              /\ combinedError(st') = "TokenUnavailable"
              /\ st'.sock[k] = "none"
              /\ \A j \in Calls : ~Opened(j)
              /\ ~isConnecting(st')
              /\ ~isListening(st') ]_vars

\* C9: there is no automatic reconnection: in a step taken while no start
\* call is in progress and that is not a new start call, no token is
\* requested and no connection is opened, and every token request belongs
\* to a start call of its own.
C9_NoAutomaticReconnection ==
    [][ /\ st'.tokenRequests <= st'.nstarts
        /\ (~Pending(st) /\ st'.nstarts = st.nstarts) =>
              /\ st'.tokenRequests = st.tokenRequests
              /\ ~Pending(st')
              /\ \A k \in Calls : ~Opened(k) ]_vars

\* a session that was active has lost its connection, and another one that
\* was active was stopped by the caller; nothing is in progress
C9_Witness ==
    /\ ~Pending(st)
    /\ st.nstarts = 2
    /\ st.started[1] /\ st.sock[1] = "closed"
    /\ st.started[2] /\ st.sock[2] \in {"closing", "closed"}
    /\ ~isListening(st)

\* ------------------------------------------------------------------------
\* Properties of the live transcript
\* ------------------------------------------------------------------------
\* C11: a committed transcript event whose text is empty or only whitespace
\* produces no segment: the buffers hold the same segments after the event
\* as before it, and nothing is recorded as appended.
C11_BlankCommitKeepsBuffer ==
    [][ (lastOp'.op = "committed" /\ ~Truthy(trim(lastOp'.text))) =>
          /\ wsBuffer' = wsBuffer
          /\ transcriptBuffer' = transcriptBuffer
          /\ appended' = appended ]_vars

\* a whitespace-only text was committed while the buffer holds a segment
\* that a cleaning would have evicted
C11_Witness ==
    /\ lastOp.op = "committed"
    /\ lastOp.text = <<" ", " ">>
    /\ ActiveBuffer # << >>
    /\ now - ActiveBuffer[1].timestamp > BUFFER_DURATION_MS

\* C12: between two clears the committed text equals the texts of the
\* segments committed so far, in the order of their events, joined by single
\* spaces, and it changes only by appending.
C12_CommittedTextIsJoinedSegments ==
    [][ impl # "speech" =>
          /\ Transcript' = SpaceJoined(appended')
          /\ IsPrefix(appended, appended') => IsPrefix(Transcript, Transcript') ]_vars

\* C13: after clearTranscript and after every startListening the committed
\* text and the interim text are both empty.
C13_ResetOnClearAndStart ==
    [][ (clearTranscript \/ startListening) =>
          /\ Transcript' = Empty
          /\ InterimTranscript' = Empty ]_vars

\* ------------------------------------------------------------------------
\* Properties of the audio source modes
\* ------------------------------------------------------------------------
NoCapability == needsSystemAudio /\ ~canUseSystemAudio

C17_MicOnlyWithWarning ==
    [][ \A k \in Calls :
          (audioSource = "both" /\ getDisplayMedia(k, "fail")) =>
              /\ st'.call[k] = "token"
              /\ st'.mic[k] = "live"
              /\ st'.display[k] = "none"
              /\ st'.mix[k] = "none"
              /\ combinedError(st') # "none" ]_vars

Invoked == Len(jargon'.calls) > Len(jargon.calls)

\* C19: any two invocations of the batch classifier are at least one
\* detection interval apart, however often the transcript changes
C19_OncePerInterval ==
    \A i \in 1..Len(jargon.calls) : \A n \in 1..Len(jargon.calls) :
        i < n => jargon.calls[n].at - jargon.calls[i].at >= detectionIntervalMs

\* C20: when the interval fires a second time with the transcript unchanged,
\* the classifier is not invoked again for a text it was already invoked
\* for, whatever became of the earlier invocation
C20_UnchangedTextNotReanalyzed ==
    [][ \A tm \in jargon.timers :
          (IntervalFires(tm)
             /\ tm.ticks >= 1
             /\ \E i \in 1..Len(jargon.calls) : jargon.calls[i].text = tm.text)
          => ~Invoked ]_vars

\* C21: a batch detection that ends in an error or a rejection leaves the
\* set of detected words as it was, and the transcription (session state,
\* committed text, buffer) is untouched by it
C21_FailedDetectionKeepsWords ==
    [][ jargon'.failed =>
          /\ jargon'.detectedJargon = jargon.detectedJargon
          /\ jargon'.lastAnalyzedTranscript = jargon.lastAnalyzedTranscript
          /\ UNCHANGED transcription ]_vars

C21_Witness ==
    /\ jargon.failed
    /\ jargon.detectedJargon # {}

\* the words of the model that hold no capital letter
IsLowerCase(w) == w \notin {"API", "Roi"}

\* C22: the set of detected words only grows, whatever the detection rounds
\* do and in whatever order they complete, and every member is lowercase
C22_WordsOnlyGrow ==
    [][ /\ jargon.detectedJargon \subseteq jargon'.detectedJargon
        /\ \A w \in jargon'.detectedJargon : IsLowerCase(w) ]_vars

\* two rounds have completed out of order and the set holds both answers
C22_Witness ==
    /\ jargon.detectedJargon = {"api", "roi"}
    /\ Len(jargon.calls) >= 2
    /\ ~jargon.calls[1].open /\ ~jargon.calls[2].open
    /\ jargon.lastAnalyzedTranscript = jargon.calls[1].text
    /\ jargon.calls[1].text # jargon.calls[2].text

\* C28: at most one detection interval is set at any time, it is the one
\* intervalRef points to, none is set while the hook is not listening or
\* the transcript is empty, and a change of the listening state or of the
\* transcript leaves no interval of before the change
C28_SingleDetectionTimer ==
    [][ /\ Cardinality(jargon'.timers) <= 1
        /\ jargon'.timers # {} =>
              /\ jargon'.timers = {jargon'.intervalRef}
              /\ jargon'.isListening
              /\ jargon'.transcript # Empty
        /\ (\E t \in DetectTexts, l \in BOOLEAN : Render(t, l)) =>
              \A tm \in jargon'.timers :
                  tm.text = jargon'.transcript /\ tm.ticks = 0
                     /\ tm.due = jargon'.clock + detectionIntervalMs ]_vars

\* an interval that has fired was replaced when the transcript changed
C28_Witness ==
    /\ jargon.clock >= detectionIntervalMs
    /\ Len(jargon.calls) >= 2
    /\ jargon.calls[1].text # jargon.transcript
    /\ jargon.timers = {[armed |-> TRUE, text |-> jargon.transcript,
                          due |-> jargon.clock + detectionIntervalMs, ticks |-> 0]}

\* ------------------------------------------------------------------------
\* Properties of explainWord and its cache
\* ------------------------------------------------------------------------
Cached(k) == jargon.explanationCache[k].explanation # "null"

\* C23: once explainWord has returned isJargon true with an explanation e for
\* a word, every later call with that word in any letter case returns e from
\* the cache and sends nothing to explain-word
C23_CachedExplanationReturned ==
    [][ \A word \in ExplainWords :
          explainWord(word) =>
              \A e \in jargon.answered[toLowerCase(word)] :
                  /\ jargon'.returned.valid /\ jargon'.returned.hit
                  /\ jargon'.returned.isJargon
                  /\ jargon'.returned.explanation = e
                  /\ jargon'.requests = jargon.requests ]_vars

\* C24: every entry of the explanation cache was written from a response
\* whose isJargon was true
C24_OnlyJargonCached ==
    \A k \in ExplainKeys : Cached(k) => jargon.explanationCache[k].isJargon

\* C25: an entry of the explanation cache is never overwritten or removed
C25_FirstWriteWins ==
    [][ \A k \in ExplainKeys :
          Cached(k) => jargon'.explanationCache[k].explanation
                          = jargon.explanationCache[k].explanation ]_vars

\* C26: when explain-word answers with an error or the invocation rejects,
\* explainWord resolves to {isJargon: false, explanation: null} and the
\* cache is as it was
C26_FailureResolvesToDefault ==
    [][ (\E i \in 1..MaxExplains, outcome \in ExplainOutcomes :
            outcome.kind \in {"error", "rejected"} /\ ExplainSettles(i, outcome)) =>
          /\ jargon'.returned.valid
          /\ ~jargon'.returned.isJargon
          /\ jargon'.returned.explanation = "null"
          /\ jargon'.explanationCache = jargon.explanationCache ]_vars

\* a request failed while the cache held the explanation of another word
C26_Witness ==
    /\ jargon.failed
    /\ jargon.returned.valid
    /\ jargon.returned.word = "Roi"
    /\ Cached("api")
    /\ ~Cached("roi")

\* C27: isExplaining is true exactly when a request sent to explain-word has
\* not completed yet
C27_IsExplainingWhileOutstanding ==
    jargon.isExplaining <=> \E i \in 1..Len(jargon.requests) : jargon.requests[i].open

\* ------------------------------------------------------------------------
\* Properties of the capture
\* ------------------------------------------------------------------------
Pendings(k) == { tm \in page.timeouts : tm.id = k }
Firings(k) == { n \in 1..Len(page.fired) : page.fired[n] = k }
SavesOf(k, by) == { i \in 1..Len(page.saves) : page.saves[i].capture = k /\ page.saves[i].by = by }

\* C29: the timeout of a cancelled capture is gone and never fires, no save
\* runs for that capture (nothing persisted, nothing cleared); the timeout
\* of a capture that was not cancelled stays set until it fires, fires once
\* and runs the save once
C29_CaptureTimeoutOneShot ==
    \A k \in 1..page.ncaptures :
        IF k \in page.cancelled
        THEN /\ Pendings(k) = {}
             /\ Firings(k) = {}
             /\ \A i \in 1..Len(page.saves) : page.saves[i].capture # k
        ELSE /\ Cardinality(Pendings(k)) + Cardinality(Firings(k)) = 1
             /\ Cardinality(SavesOf(k, "timeout")) = Cardinality(Firings(k))

\* the first capture was cancelled, its 15 s have passed, and the timeout of
\* the second capture has fired and saved
C29_Witness ==
    /\ 1 \in page.cancelled
    /\ page.fired = <<2>>
    /\ page.moments # << >>

SaveBegins == Len(page'.saves) = Len(page.saves) + 1

\* C30: a save queries the 75 s window and keeps the result; the row it
\* writes holds exactly that text; the transcript is cleared only in the
\* step that has written the row, never before and never without it
C30_QueryPersistClear ==
    [][ /\ SaveBegins =>
              /\ page'.saves[Len(page'.saves)].text = QueryOf(CaptureWindowSeconds).result
              /\ lastQuery' = QueryOf(CaptureWindowSeconds)
              /\ UNCHANGED <<bufferState, page.moments, page.cleared>>
        /\ (page'.moments # page.moments \/ page'.cleared # page.cleared) =>
              \E i \in 1..Len(page.saves) :
                  /\ page.saves[i].state = "insert"
                  /\ page'.saves[i].state = "saved"
                  /\ page'.moments = Append(page.moments, page.saves[i].text)
                  /\ page'.cleared = page.cleared + 1
                  /\ ActiveBuffer' = << >> ]_vars

\* the timeout of a capture has fired with speech in the window: the row
\* is written and the buffer is empty
C30_Witness ==
    /\ page.fired = <<1>>
    /\ Len(page.saves) = 1
    /\ page.saves[1].state = "saved"
    /\ page.moments = << <<"hello">> >>
    /\ page.cleared = 1
    /\ ActiveBuffer = << >>

\* C31: a start that was still waiting for a permission prompt or for a
\* token when stopListening was called never completes afterwards: it gets
\* no socket and no Scribe connection
C31_StopCancelsStart ==
    [][ \A k \in st.cancelled :
            /\ st'.call[k] # "done"
            /\ st'.sock[k] = "none" ]_vars

\* ------------------------------------------------------------------------
\* Properties of replaced connections
\* ------------------------------------------------------------------------
\* socket k was closed by a stop and a later start has replaced it
Replaced(k) ==
    /\ st.sock[k] = "closing"
    /\ st.ws # k
    /\ k < st.nstarts

\* C32: a close or error event of a socket that a stop closed and a later
\* start replaced leaves every other socket as it was, leaves a listening
\* session listening and a connecting session connecting
C32_LateEventsLeaveNewSession ==
    [][ \A k \in Calls :
          Replaced(k) /\ (closeEvent(k) \/ transportError(k)) =>
              /\ \A j \in Calls \ {k} : st'.sock[j] = st.sock[j]
              /\ isListening(st) => isListening(st')
              /\ isConnecting(st) => isConnecting(st') ]_vars

\* the sockets that are connecting or open
LiveSockets == {k \in Calls : st.sock[k] \in {"connecting", "open"}}

\* the capture graphs that are running and have an open socket to send to
SendingGraphs ==
    {g \in Calls : /\ st.graph[g] = "live"
                   /\ Target(st, g) # 0
                   /\ st.sock[Target(st, g)] = "open"}

\* C33: at any time at most one socket is connecting or open and at most
\* one capture graph is sending frames
C33_OneConnectionOneGraph ==
    /\ Cardinality(LiveSockets) <= 1
    /\ Cardinality(SendingGraphs) <= 1

\* ------------------------------------------------------------------------
\* The Connecting state of the class-based hook
\* ------------------------------------------------------------------------
\* what the browser and the service deliver without the caller: settled
\* promises and the events of sockets
Delivery ==
    \/ \E k \in Calls, ok \in BOOLEAN : getUserMedia(k, ok)
    \/ \E k \in Calls, outcome \in DisplayOutcomes : getDisplayMedia(k, outcome)
    \/ \E k \in Calls : tokenReceived(k)
    \/ \E k \in Calls : tokenFailed(k)
    \/ \E k \in Calls, ok \in BOOLEAN : scribeToken(k, ok)
    \/ \E k \in Calls, ok \in BOOLEAN : scribeConnect(k, ok)
    \/ \E k \in Calls : socketOpen(k)
    \/ \E k \in Calls : sessionStarted(k)
    \/ \E k \in Calls : closeEvent(k)

InitConnecting == InitSession /\ impl = "class"

\* every pending promise settles and every pending socket event arrives
SpecConnecting == InitConnecting /\ [][NextSession]_vars /\ WF_vars(Delivery)

\* C34: whenever isConnecting is true it is false again later
C34_ConnectingEnds == isConnecting(st) ~> ~isConnecting(st)

\* ------------------------------------------------------------------------
\* Properties of the save that ends a capture
\* ------------------------------------------------------------------------
\* C35: a capture that was ended with Stop & Save is saved once: its
\* timeout never runs the save a second time
C35_OneSavePerCapture ==
    \A k \in 1..page.ncaptures :
        SavesOf(k, "button") # {} =>
            /\ SavesOf(k, "timeout") = {}
            /\ k \notin {page.fired[n] : n \in 1..Len(page.fired)}

\* a segment committed when the page opened
FirstSegment == [text |-> <<"hello">>, timestamp |-> 0]

\* the Recording page on the WebSocket session, listening, one segment heard
InitPersist ==
    /\ impl = "hook"
    /\ audioSource = "both"
    /\ canUseSystemAudio = TRUE
    /\ now = 0
    /\ wsBuffer = <<FirstSegment>>
    /\ wsTranscript = FirstSegment.text
    /\ wsInterimTranscript = Empty
    /\ transcriptBuffer = << >>
    /\ transcript = Empty
    /\ interimTranscript = Empty
    /\ appended = <<FirstSegment>>
    /\ commits = 1
    /\ lastQuery = NoQuery
    /\ lastOp = NoOp
    /\ wsTranscriptionRef = FALSE
    /\ st = ActiveSt
    /\ jargon = InitJargon
    /\ page = InitPage
    /\ speech = InitSpeech

\* saveCapture is waiting for the insert to return
InsertAwaited == \E i \in 1..Len(page.saves) : page.saves[i].state = "insert"

\* the page up to the moment a capture timeout is due, the segments that
\* are committed while an insert is awaited, and partial transcripts
NextPersist ==
    \/ startCapture
    \/ cancelCapture
    \/ stopAndSave
    \/ CaptureTick
    \/ \E i \in 1..MaxCaptures, ok \in BOOLEAN : insertSettles(i, ok)
    \/ \E raw \in LiveTexts : InsertAwaited /\ commits < MaxLiveCommits + 1 /\ WsCommitted(raw)
    \/ \E raw \in LivePartials : WsPartial(raw)

SpecPersist == InitPersist /\ [][NextPersist]_vars

\* text a is a contiguous part of text b
IsPartOf(a, b) ==
    \E m \in 0..Len(b) : m + Len(a) <= Len(b) /\ SubSeq(b, m + 1, m + Len(a)) = a

\* C36: when a save clears the transcript, the segments it removes from the
\* buffer are all in the text of the row it has written
C36_ClearedSegmentsWerePersisted ==
    [][ \A i \in 1..Len(page.saves) :
          insertSettles(i, TRUE) =>
              IsPartOf(join(Texts(ActiveBuffer), Space), page.saves[i].text) ]_vars

\* save i has ended in this step without a row: nothing was heard, or the
\* insert failed
EndsUnsaved(i) ==
    /\ page'.saves[i].state \in {"empty", "failed"}
    /\ i <= Len(page.saves) => page.saves[i].state # page'.saves[i].state

\* C37: a save that ends without a row (nothing heard, or the insert
\* failed) leaves the buffer, the committed text and the interim text as
\* they were and clears nothing
C37_UnsavedCaptureClearsNothing ==
    [][ \A i \in 1..Len(page'.saves) :
          EndsUnsaved(i) =>
              /\ UNCHANGED <<wsBuffer, transcriptBuffer>>
              /\ Transcript' = Transcript
              /\ InterimTranscript' = InterimTranscript
              /\ page'.cleared = page.cleared ]_vars

\* the insert of a save of "hello" has failed with a partial transcript on
\* display: the segment, the committed text and the partial are still there
C37_Witness ==
    /\ Len(page.saves) = 1
    /\ page.saves[1].state = "failed"
    /\ page.saves[1].text = <<"hello">>
    /\ Texts(ActiveBuffer) = << <<"hello">> >>
    /\ Transcript = <<"hello">>
    /\ InterimTranscript = <<"foo">>
    /\ page.cleared = 0
    /\ page.moments = << >>

\* ------------------------------------------------------------------------
\* The audio source of the profile
\* ------------------------------------------------------------------------
\* fetchAudioSource: the profile row arrives and setAudioSource replaces the
\* default "microphone"; the hook is rendered again with the new option
fetchAudioSource(source) ==
    /\ impl = "hook"
    /\ audioSource = "microphone"
    /\ audioSource' = source
    /\ st' = NoFrame(st)
    /\ lastOp' = NoOp
    /\ lastQuery' = NoQuery
    /\ UNCHANGED <<impl, canUseSystemAudio, wsTranscriptionRef, jargon, page, speech>>
    /\ UNCHANGED bufferState

\* the values of profiles.audio_source that differ from the default
ProfileSources == {"computer", "both"}

NextProfile ==
    \/ NextSession
    \/ \E source \in ProfileSources : fetchAudioSource(source)

\* the page opens with the default source while the profile is loading
InitProfile == InitSession /\ impl = "hook" /\ audioSource = "microphone"

SpecProfile == InitProfile /\ [][NextProfile]_vars

\* audio is being sent: the Scribe session is connected, or a capture graph
\* runs with an open socket
Streaming == st.scribeConnected \/ SendingGraphs # {}

\* C38: a session that sends audio is reported by isListening, and after
\* stopListening no session sends audio
C38_StopEndsTheSession ==
    /\ [](Streaming => isListening(st))
    /\ [][stopListening => ~Streaming']_vars

\* ------------------------------------------------------------------------
\* Properties of the encoder
\* ------------------------------------------------------------------------
\* C39: a step of the audio callback sends its frame to a socket only when
\* that socket is open and is the one its capture graph sends to; otherwise
\* the frame is dropped; either way nothing else changes: no frame is kept
\* for later and the capture graph keeps running
C39_FramesSentOrDropped ==
    [][ LET f == st'.frame IN
        /\ f.to # 0 =>
              /\ st.sock[f.to] = "open"
              /\ ~f.dropped
              /\ \E g \in Calls : st.graph[g] = "live" /\ Target(st, g) = f.to
        /\ f.dropped =>
              \E g \in Calls :
                  /\ st.graph[g] = "live"
                  /\ Target(st, g) = 0 \/ st.sock[Target(st, g)] # "open"
        /\ (f.to # 0 \/ f.dropped) =>
              /\ st' = [st EXCEPT !.frame = f]
              /\ UNCHANGED <<bufferState, wsTranscriptionRef>> ]_vars

\* the service has closed the socket of a running capture graph and the
\* frame of the last audio callback was dropped
C39_Witness ==
    /\ st.frame.dropped
    /\ st.frame.to = 0
    /\ \E g \in Calls :
          /\ st.graph[g] = "live"
          /\ Target(st, g) # 0
          /\ st.sock[Target(st, g)] \in {"closing", "closed"}

\* ------------------------------------------------------------------------
\* Continuous recognition: operations
\* ------------------------------------------------------------------------
\* a step of the legacy hook that leaves the transcript alone
SpeechStep ==
    /\ impl = "speech"
    /\ lastOp' = NoOp
    /\ lastQuery' = NoQuery
    /\ UNCHANGED bufferState
    /\ UNCHANGED <<impl, audioSource, canUseSystemAudio, wsTranscriptionRef, st, jargon, page>>

speechStart ==
    /\ speech' = speechStartListening(speech)
    /\ SpeechStep

speechStop ==
    /\ speech' = speechStopListening(speech)
    /\ SpeechStep

\* the recognition service has started: onstart runs
recognitionStarts ==
    /\ speech.recognition = "starting"
    /\ speech' = recognition_onstart(speech)
    /\ SpeechStep

\* the recognition reports an error: onerror runs, and the session is over
recognitionError(e) ==
    /\ speech.recognition \in {"starting", "running"}
    /\ speech' = [recognition_onerror(speech, e) EXCEPT !.recognition = "ending"]
    /\ SpeechStep

\* the recognition session ends, after stop(), after an error or on its own:
\* onend runs
recognitionEnds ==
    /\ speech.recognition \in {"running", "ending"}
    /\ speech.shouldRestartRef => speech.restarts < MaxRestarts
    /\ speech' = recognition_onend(speech)
    /\ SpeechStep

\* what a running recognition hears: a final result or an interim one
LiveResults == { <<[transcript |-> <<"hello">>, isFinal |-> TRUE]>>,
                 <<[transcript |-> <<"foo">>, isFinal |-> FALSE]>> }

NextRecognition ==
    \/ speechStart
    \/ speechStop
    \/ recognitionStarts
    \/ \E e \in RecognitionErrors : recognitionError(e)
    \/ recognitionEnds
    \/ \E results \in LiveResults :
          speech.recognition = "running" /\ commits < MaxLiveCommits /\ onresult(results)

InitRecognition ==
    /\ impl = "speech"
    /\ audioSource = "microphone"
    /\ canUseSystemAudio = FALSE
    /\ InitBufferVars
    /\ wsTranscriptionRef = FALSE
    /\ st = InitSt
    /\ jargon = InitJargon
    /\ page = InitPage
    /\ speech \in {[InitSpeech EXCEPT !.isSupported = b] : b \in BOOLEAN}

SpecRecognition == InitRecognition /\ [][NextRecognition]_vars

====
